---------------------------- MODULE Spec2Model ----------------------------
(***************************************************************************)
(* Weather Data Logger (src/app.py): the session state of the Streamlit    *)
(* script, one action per script run (a button press or a widget change),  *)
(* and the derived views a run renders from the observation log.           *)
(*                                                                         *)
(* Units: temperature and wind_speed are held in tenths (22.5 degrees is   *)
(* 225, 3.2 m/s is 32); humidity and pressure are integers; the per-city   *)
(* statistics, rounded to 2 decimals by the code, are held in hundredths.  *)
(* Timestamps and the display-only fields of an entry are left out.        *)
(***************************************************************************)
EXTENDS Integers, Sequences, FiniteSets, TLC

VARIABLES
    weather_logs,   \* st.session_state.weather_logs
    api_key,        \* st.session_state.api_key
    auto_logging,   \* st.session_state.auto_logging
    city_input,     \* the city the Get Weather handler sees (text input or quick select)
    requests,       \* provider requests issued by the last script run
    results,        \* tagged results the fetch functions returned in the last run
    last,           \* the handler the last script run executed
    calls,          \* history: the arguments of add_weather_log since the last clear
    origin          \* history: per log entry, the path that built it

vars == <<weather_logs, api_key, auto_logging, city_input, requests, results,
          last, calls, origin>>

-----------------------------------------------------------------------------
(* Bounds *)

\* runs of the session machine append only to a log shorter than this
MaxLog == 2
\* longest log of the alert-rule family of view inputs
AlertLogLen == 2
\* longest log of the statistics family of view inputs
StatsLogLen == 4
\* longest log of the many-alerts family of view inputs
LongLogLen == 6

-----------------------------------------------------------------------------
(* Program constants *)

\* the thresholds on temperature and wind_speed are in tenths: 35 and -10
\* degrees, 15 m/s
favorite_cities == <<"London", "New York", "Tokyo", "Mumbai", "Sydney">>
demo_cities == <<"London", "Paris", "New York", "Tokyo", "Mumbai">>
BatchLimit == 3
ShownAlertCount == 5
HeatThreshold == 350
ColdThreshold == -100
WindThreshold == 150
HumidityThreshold == 90

None == "None"

Max(a, b) == IF a >= b THEN a ELSE b
Min(a, b) == IF a <= b THEN a ELSE b

\* Python s[:k] for k >= 0
PyHead(s, k) == SubSeq(s, 1, Min(k, Len(s)))
\* Python s[-k:] for k > 0
PyTail(s, k) == SubSeq(s, Max(Len(s) - k, 0) + 1, Len(s))
\* Python s[-1]: raises IndexError on an empty list
PyLast(s) == IF Len(s) = 0 THEN [raised |-> "IndexError"] ELSE [raised |-> "none", value |-> s[Len(s)]]

-----------------------------------------------------------------------------
(* Inputs *)

\* what the user may type as API key: nothing, a key, or the demo marker
ApiKeys == {"", "KEY", "demo_mode"}
\* what the user may have as city, typed or picked in Quick Select: nothing or
\* a name
CityInputs == {"", "London"}

\* readings a provider response may carry in the session machine (tenths for
\* temp and wind): 40 degrees with a wind of 20 m/s.  The view machine below
\* ranges over more readings.
LiveReadings ==
    { [temp |-> 400, humidity |-> 50, pressure |-> 1013, wind |-> 200] }

\* readings random.uniform / random.randint may draw in Demo Weather: the two
\* ends of every range
DemoReadings ==
    { [temp |-> -50, humidity |-> 30, pressure |-> 990, wind |-> 0],
      [temp |-> 350, humidity |-> 90, pressure |-> 1040, wind |-> 150] }

\* what requests.get may do for one request.  A body that is not JSON makes
\* response.json() raise a JSONDecodeError, which is a RequestException in
\* recent releases of requests and a plain ValueError in older ones.
\* The session machine draws from the first set: one behaviour per kind of
\* outcome.  The fetch machine draws from both.
SessionBehaviours ==
    { [kind |-> "timeout"], [kind |-> "connection_error"] }
    \cup { [kind |-> "http", status |-> 200, body |-> "full", reading |-> r] :
             r \in LiveReadings }
    \cup { [kind |-> "http", status |-> 200, body |-> "missing_required"],
           [kind |-> "http", status |-> 401, body |-> "message"] }

MoreBehaviours ==
    { [kind |-> "http", status |-> 404, body |-> "no_message"],
      [kind |-> "http", status |-> 200, body |-> "not_json_reqexc"],
      [kind |-> "http", status |-> 200, body |-> "not_json_valueerror"],
      [kind |-> "http", status |-> 502, body |-> "not_json_reqexc"],
      [kind |-> "http", status |-> 502, body |-> "not_json_valueerror"] }

-----------------------------------------------------------------------------
(* Provider client *)

Request(endpoint, city, key) == [endpoint |-> endpoint, q |-> city, appid |-> key]

\* a returned tuple (success, data, error); data is <<>> for None
Ok(data) == [success |-> TRUE, data |-> <<data>>, error |-> None, unhandled |-> "none"]
Fail(msg) == [success |-> FALSE, data |-> <<>>, error |-> msg, unhandled |-> "none"]
\* no tuple is returned: the exception leaves the function
Unhandled(exc) == [success |-> FALSE, data |-> <<>>, error |-> None, unhandled |-> exc]

\* the exception requests.get or response.json() raises, "none" when neither does
TransportException(resp) ==
    CASE resp.kind = "timeout" -> "Timeout"
      [] resp.kind = "connection_error" -> "ConnectionError"
      [] OTHER -> "none"
JsonException(resp) ==
    CASE resp.body = "not_json_reqexc" -> "JSONDecodeError(RequestException)"
      [] resp.body = "not_json_valueerror" -> "JSONDecodeError(ValueError)"
      [] OTHER -> "none"
\* subclasses of requests.exceptions.RequestException
RequestExceptions == {"Timeout", "ConnectionError", "JSONDecodeError(RequestException)"}

\* the weather_entry dict of get_weather_data
weather_entry(city, reading) ==
    [ city |-> city, country |-> "GB", temperature |-> reading.temp,
      humidity |-> reading.humidity, pressure |-> reading.pressure,
      wind_speed |-> reading.wind, status |-> "success" ]

\* the body of the try block of get_weather_data: a returned tuple or a raised
\* exception.  The provider reports the queried city as data['name'].
weather_try(city, resp) ==
    IF TransportException(resp) # "none"
    THEN [raised |-> TransportException(resp)]
    ELSE IF resp.status = 200
    THEN IF JsonException(resp) # "none"
         THEN [raised |-> JsonException(resp)]
         ELSE IF resp.body = "missing_required"
         THEN [raised |-> "KeyError"]
         ELSE [raised |-> "none", value |-> Ok(weather_entry(city, resp.reading))]
    ELSE IF JsonException(resp) # "none"
         THEN [raised |-> JsonException(resp)]
         ELSE [raised |-> "none",
               value |-> Fail(IF resp.body = "message"
                              THEN "API Error: provider message"
                              ELSE "API Error: Unknown error")]

\* a variant without the final except Exception clause
weather_except_no_catch_all(exc) ==
    IF exc = "Timeout" THEN Fail("Request timed out")
    ELSE IF exc \in RequestExceptions THEN Fail("Network error")
    ELSE Unhandled(exc)

\* the except clauses of get_weather_data, in order
weather_except(exc) ==
    IF exc = "Timeout" THEN Fail("Request timed out")
    ELSE IF exc \in RequestExceptions THEN Fail("Network error")
    ELSE Fail("Error")

get_weather_data(city, key, resp) ==
    LET t == weather_try(city, resp)
    IN  IF t.raised = "none" THEN t.value ELSE weather_except(t.raised)

\* the requests one call of get_weather_data sends: one, never repeated
weather_requests(city, key, resp) == << Request("weather", city, key) >>

forecast_try(city, resp) ==
    IF TransportException(resp) # "none"
    THEN [raised |-> TransportException(resp)]
    ELSE IF JsonException(resp) # "none"
    THEN [raised |-> JsonException(resp)]
    ELSE IF resp.status = 200
    THEN [raised |-> "none", value |-> Ok([json |-> resp.body])]
    ELSE [raised |-> "none",
          value |-> Fail(IF resp.body = "message"
                         THEN "Forecast API Error: provider message"
                         ELSE "Forecast API Error: Unknown error")]

forecast_except(exc) == Fail("Forecast Error")

get_forecast_data(city, key, resp) ==
    LET t == forecast_try(city, resp)
    IN  IF t.raised = "none" THEN t.value ELSE forecast_except(t.raised)

forecast_requests(city, key, resp) == << Request("forecast", city, key) >>

-----------------------------------------------------------------------------
(* Observation log *)

\* a variant that inserts at the front
add_weather_log_front(logs, weather_data) == <<weather_data>> \o logs
\* a variant that writes over the last entry
add_weather_log_overwrite(logs, weather_data) ==
    IF logs = <<>> THEN <<weather_data>> ELSE [logs EXCEPT ![Len(logs)] = weather_data]

add_weather_log(logs, weather_data) == Append(logs, weather_data)

\* a variant tagged like a provider record
demo_mode_data_tagged_success(city) ==
    [ city |-> city, country |-> "XX", temperature |-> 225, humidity |-> 65,
      pressure |-> 1013, wind_speed |-> 32, status |-> "success" ]

\* the demo_data dict of the Get Weather handler in demo mode
demo_mode_data(city) ==
    [ city |-> city, country |-> "XX", temperature |-> 225, humidity |-> 65,
      pressure |-> 1013, wind_speed |-> 32, status |-> "demo" ]

\* the demo_data dict of the Demo Weather handler, for one draw of the randoms
demo_data(city, reading) ==
    [ city |-> city, country |-> "XX", temperature |-> reading.temp,
      humidity |-> reading.humidity, pressure |-> reading.pressure,
      wind_speed |-> reading.wind, status |-> "demo" ]

-----------------------------------------------------------------------------
(* Derived views *)

RECURSIVE SumOf(_, _)
\* the sum of field f over the rows of a sequence
SumOf(rows, f) ==
    IF rows = <<>> THEN 0 ELSE rows[1][f] + SumOf(Tail(rows), f)

\* num/den rounded to the nearest integer, halves to the even one (numpy's round)
RoundHalfEven(num, den) ==
    LET q == num \div den
        r == num % den
    IN  IF 2 * r < den THEN q
        ELSE IF 2 * r > den THEN q + 1
        ELSE IF q % 2 = 0 THEN q ELSE q + 1

\* the rows of one city, in log order (one group of df.groupby('city'))
RowsOf(logs, c) == SelectSeq(logs, LAMBDA e : e.city = c)

CitiesOf(logs) == { logs[i].city : i \in DOMAIN logs }

\* a variant that cuts the mean off after the second decimal
MeanTruncated(rows, f, scale) == (SumOf(rows, f) * scale) \div Len(rows)

\* mean of field f over a group, in hundredths; scale is 10 for fields held in
\* tenths and 100 for integer fields
MeanRound2(rows, f, scale) == RoundHalfEven(SumOf(rows, f) * scale, Len(rows))

MinTemp(rows) ==
    CHOOSE t \in { rows[i].temperature : i \in DOMAIN rows } :
        \A i \in DOMAIN rows : t <= rows[i].temperature
MaxTemp(rows) ==
    CHOOSE t \in { rows[i].temperature : i \in DOMAIN rows } :
        \A i \in DOMAIN rows : t >= rows[i].temperature

\* df.groupby('city').agg(...).round(2): one row per distinct city
city_stats(logs) ==
    [ c \in CitiesOf(logs) |->
        LET rows == RowsOf(logs, c)
        IN  [ avg_temp     |-> MeanRound2(rows, "temperature", 10),
              min_temp     |-> MinTemp(rows) * 10,
              max_temp     |-> MaxTemp(rows) * 10,
              avg_humidity |-> MeanRound2(rows, "humidity", 100),
              avg_wind     |-> MeanRound2(rows, "wind_speed", 10),
              avg_pressure |-> MeanRound2(rows, "pressure", 100) ] ]

\* the City Comparison section: the table is built and shown only when the log
\* holds more than one distinct city
CityComparison(logs) ==
    IF Cardinality(CitiesOf(logs)) > 1
    THEN [state |-> "table", table |-> city_stats(logs)]
    ELSE [state |-> "none", table |-> << >>]

\* a variant whose comparisons include the threshold itself
RowAlerts_inclusive(row) ==
    IF row.temperature >= HeatThreshold
    THEN << [kind |-> "ExtremeHeat", city |-> row.city, value |-> row.temperature] >>
    ELSE IF row.temperature <= ColdThreshold
    THEN << [kind |-> "ExtremeCold", city |-> row.city, value |-> row.temperature] >>
    ELSE IF row.wind_speed >= WindThreshold
    THEN << [kind |-> "StrongWind", city |-> row.city, value |-> row.wind_speed] >>
    ELSE IF row.humidity >= HumidityThreshold
    THEN << [kind |-> "HighHumidity", city |-> row.city, value |-> row.humidity] >>
    ELSE << >>

\* the alerts one row appends: the if/elif chain of the alerts loop
RowAlerts(row) ==
    IF row.temperature > HeatThreshold
    THEN << [kind |-> "ExtremeHeat", city |-> row.city, value |-> row.temperature] >>
    ELSE IF row.temperature < ColdThreshold
    THEN << [kind |-> "ExtremeCold", city |-> row.city, value |-> row.temperature] >>
    ELSE IF row.wind_speed > WindThreshold
    THEN << [kind |-> "StrongWind", city |-> row.city, value |-> row.wind_speed] >>
    ELSE IF row.humidity > HumidityThreshold
    THEN << [kind |-> "HighHumidity", city |-> row.city, value |-> row.humidity] >>
    ELSE << >>

RECURSIVE alerts(_)
\* the alerts list after the loop over df.iterrows()
alerts(logs) ==
    IF logs = <<>> THEN <<>> ELSE RowAlerts(logs[1]) \o alerts(Tail(logs))

\* a variant that shows the first alerts instead of the last
AlertsShown_first(logs) ==
    IF alerts(logs) # <<>>
    THEN [state |-> "alerts", cards |-> PyHead(alerts(logs), ShownAlertCount)]
    ELSE [state |-> "no_alerts", cards |-> << >>]

\* what the Weather Alerts section shows
AlertsShown(logs) ==
    IF alerts(logs) # <<>>
    THEN [state |-> "alerts", cards |-> PyTail(alerts(logs), ShownAlertCount)]
    ELSE [state |-> "no_alerts", cards |-> << >>]

\* the sidebar Quick Stats
QuickStats(logs) ==
    IF logs # <<>>
    THEN LET latest == PyLast(logs)
         IN  IF latest.raised # "none"
             THEN [state |-> latest.raised]
             ELSE [state |-> "metrics", total_logs |-> Len(logs),
                   cities_logged |-> Cardinality(CitiesOf(logs)),
                   latest_temp |-> latest.value.temperature]
    ELSE [state |-> "hidden"]

\* a variant without the test for an empty log
LatestWeather_unguarded(logs) ==
    LET latest == PyLast(logs)
    IN  IF latest.raised # "none"
        THEN [state |-> latest.raised]
        ELSE [state |-> "card", entry |-> latest.value]

\* the Latest Weather column
LatestWeather(logs) ==
    IF logs # <<>>
    THEN LET latest == PyLast(logs)
         IN  IF latest.raised # "none"
             THEN [state |-> latest.raised]
             ELSE [state |-> "card", entry |-> latest.value]
    ELSE [state |-> "no_data"]

\* the Analytics tab
Analytics(logs) ==
    IF logs # <<>>
    THEN [state |-> "charts", comparison |-> CityComparison(logs),
          alerts |-> AlertsShown(logs)]
    ELSE [state |-> "no_data"]

CsvHeader == <<"city", "country", "temperature", "humidity", "pressure", "wind_speed", "status">>
CsvRow(e) == << e.city, e.country, e.temperature, e.humidity, e.pressure, e.wind_speed, e.status >>

\* df.to_csv(index=False): the header line, then one line per entry; "" for an
\* empty log
save_weather_logs_csv(logs) ==
    IF logs # <<>>
    THEN [state |-> "table", lines |-> <<CsvHeader>> \o [i \in DOMAIN logs |-> CsvRow(logs[i])]]
    ELSE [state |-> "empty_text", lines |-> << >>]

\* everything a script run renders from the log, and the missing-key warning.
\* Every run ends by rendering the state it leaves (a handler that changes the
\* log calls st.rerun()), so what the user sees in a state is Render of it.
Render(logs, key) ==
    [ quick_stats |-> QuickStats(logs),
      latest      |-> LatestWeather(logs),
      analytics   |-> Analytics(logs),
      csv         |-> save_weather_logs_csv(logs),
      key_warning |-> (key = "") ]

-----------------------------------------------------------------------------
(* Session: one action per script run *)

Init ==
    /\ weather_logs = << >>
    /\ api_key = ""
    /\ auto_logging = FALSE
    /\ city_input = ""
    /\ requests = << >>
    /\ results = << >>
    /\ last = "start"
    /\ calls = << >>
    /\ origin = << >>

RECURSIVE LogAll(_, _)
\* add_weather_log called once per entry, in order
LogAll(logs, entries) ==
    IF entries = <<>> THEN logs
    ELSE LogAll(add_weather_log(logs, entries[1]), Tail(entries))

\* the record of a script run: the handler it executed, what it sent and what
\* the fetches returned
EndRun(handler, reqs, res) ==
    /\ requests' = reqs
    /\ results' = res
    /\ last' = handler

\* a run that appends entries built on path src, in order; the model follows
\* the session while the log the run starts from is shorter than MaxLog
Logs(entries, src) ==
    /\ Len(weather_logs) < MaxLog
    /\ weather_logs' = LogAll(weather_logs, entries)
    /\ calls' = calls \o entries
    /\ origin' = origin \o [i \in DOMAIN entries |-> src]

NoLog == UNCHANGED <<weather_logs, calls, origin>>

\* the API Key text input
SetApiKey ==
    \E k \in ApiKeys :
        /\ k # api_key
        /\ api_key' = k
        /\ NoLog
        /\ UNCHANGED <<auto_logging, city_input>>
        /\ EndRun("set_api_key", << >>, << >>)

UseDemoMode ==
    /\ api_key' = "demo_mode"
    /\ NoLog
    /\ UNCHANGED <<auto_logging, city_input>>
    /\ EndRun("use_demo_mode", << >>, << >>)

RefreshData ==
    /\ NoLog
    /\ UNCHANGED <<api_key, auto_logging, city_input>>
    /\ EndRun("refresh", << >>, << >>)

ClearAllLogs ==
    /\ weather_logs' = << >>
    /\ calls' = << >>
    /\ origin' = << >>
    /\ UNCHANGED <<api_key, auto_logging, city_input>>
    /\ EndRun("clear", << >>, << >>)

StartAutoLogging ==
    /\ auto_logging' = TRUE
    /\ NoLog
    /\ UNCHANGED <<api_key, city_input>>
    /\ EndRun("start_auto_logging", << >>, << >>)

StopAutoLogging ==
    /\ auto_logging' = FALSE
    /\ NoLog
    /\ UNCHANGED <<api_key, city_input>>
    /\ EndRun("stop_auto_logging", << >>, << >>)

\* the City Name text input or the Quick Select box
SetCity ==
    \E c \in CityInputs :
        /\ c # city_input
        /\ city_input' = c
        /\ NoLog
        /\ UNCHANGED <<api_key, auto_logging>>
        /\ EndRun("set_city", << >>, << >>)

\* if get_weather and city_input and st.session_state.api_key
GetWeatherGuard == city_input # "" /\ api_key # ""

GetWeatherRejected ==
    /\ ~GetWeatherGuard
    /\ NoLog
    /\ EndRun("get_weather", << >>, << >>)

GetWeatherDemoMode ==
    /\ GetWeatherGuard
    /\ api_key = "demo_mode"
    /\ Logs(<< demo_mode_data(city_input) >>, "local")
    /\ EndRun("get_weather", << >>, << >>)

\* a variant that logs whatever the fetch returned, without testing success
GetWeatherLive_unchecked(behaviours) ==
    /\ GetWeatherGuard
    /\ api_key # "demo_mode"
    /\ \E resp \in behaviours :
        LET res == get_weather_data(city_input, api_key, resp)
            logged == IF res.success THEN res.data[1]
                      ELSE [ city |-> city_input, country |-> None, temperature |-> 0,
                             humidity |-> 0, pressure |-> 0, wind_speed |-> 0,
                             status |-> None ]
        IN  /\ Logs(<< logged >>, "provider")
            /\ EndRun("get_weather", weather_requests(city_input, api_key, resp), << res >>)

GetWeatherLive(behaviours) ==
    /\ GetWeatherGuard
    /\ api_key # "demo_mode"
    /\ \E resp \in behaviours :
        LET res == get_weather_data(city_input, api_key, resp)
        IN  /\ IF res.success
               THEN Logs(<< res.data[1] >>, "provider")
               ELSE NoLog
            /\ EndRun("get_weather", weather_requests(city_input, api_key, resp), << res >>)

\* the Get Weather button, the provider behaving as one of behaviours
GetWeatherFrom(behaviours) ==
    /\ UNCHANGED <<api_key, auto_logging, city_input>>
    /\ \/ GetWeatherRejected
       \/ GetWeatherDemoMode
       \/ GetWeatherLive(behaviours)

GetWeather == GetWeatherFrom(SessionBehaviours)

DemoWeather ==
    /\ UNCHANGED <<api_key, auto_logging, city_input>>
    /\ \E draw \in [DOMAIN demo_cities -> DemoReadings] :
          Logs([i \in DOMAIN demo_cities |-> demo_data(demo_cities[i], draw[i])], "local")
    /\ EndRun("demo_weather", << >>, << >>)

\* elif batch_weather and api_key != "demo_mode": if api_key:
BatchGuard == api_key # "demo_mode" /\ api_key # ""

BatchCityList == PyHead(favorite_cities, BatchLimit)

RECURSIVE Flatten(_)
Flatten(ss) == IF ss = <<>> THEN <<>> ELSE ss[1] \o Flatten(Tail(ss))

\* the data of the successful results, in order
Fetched(res) == Flatten([i \in DOMAIN res |-> IF res[i].success THEN res[i].data ELSE << >>])

BatchCities ==
    /\ UNCHANGED <<api_key, auto_logging, city_input>>
    /\ IF BatchGuard
       THEN \E resps \in [DOMAIN BatchCityList -> SessionBehaviours] :
              LET res == [i \in DOMAIN BatchCityList |->
                            get_weather_data(BatchCityList[i], api_key, resps[i])]
                  reqs == Flatten([i \in DOMAIN BatchCityList |->
                            weather_requests(BatchCityList[i], api_key, resps[i])])
              IN  /\ Logs(Fetched(res), "provider")
                  /\ EndRun("batch_cities", reqs, res)
       ELSE /\ NoLog
            /\ EndRun("batch_cities", << >>, << >>)

\* a variant that does not test for an empty key
ForecastGuard_no_key_test(forecast_city) ==
    forecast_city # "" /\ api_key # "demo_mode"

\* if forecast_city and api_key and api_key != "demo_mode"
ForecastGuard(forecast_city) ==
    forecast_city # "" /\ api_key # "" /\ api_key # "demo_mode"

\* the Get 5-Day Forecast button, the provider behaving as one of behaviours
GetForecastFrom(behaviours) ==
    /\ NoLog
    /\ UNCHANGED <<api_key, auto_logging, city_input>>
    /\ \E forecast_city \in CityInputs :
         IF ForecastGuard(forecast_city)
         THEN \E resp \in behaviours :
                EndRun("get_forecast", forecast_requests(forecast_city, api_key, resp),
                       << get_forecast_data(forecast_city, api_key, resp) >>)
         ELSE EndRun("get_forecast", << >>, << >>)

GetForecast == GetForecastFrom(SessionBehaviours)

Next ==
    \/ SetApiKey
    \/ UseDemoMode
    \/ RefreshData
    \/ ClearAllLogs
    \/ StartAutoLogging
    \/ StopAutoLogging
    \/ SetCity
    \/ GetWeather
    \/ DemoWeather
    \/ BatchCities
    \/ GetForecast

Spec == Init /\ [][Next]_vars

-----------------------------------------------------------------------------
(* Fetch machine: the two fetch functions under every provider behaviour *)

GetWeatherAny == GetWeatherFrom(SessionBehaviours \cup MoreBehaviours)
GetForecastAny == GetForecastFrom(SessionBehaviours \cup MoreBehaviours)

FetchNext ==
    \/ SetApiKey
    \/ SetCity
    \/ ClearAllLogs
    \/ GetWeatherAny
    \/ GetForecastAny

FetchSpec == Init /\ [][FetchNext]_vars

-----------------------------------------------------------------------------
(* View machine: the derived views over logs of provider readings *)

AllLogs(entries, n) == UNION { [1..k -> entries] : k \in 0..n }

\* every combination of the four alert rules
AlertEntries ==
    { weather_entry(c, [temp |-> t, humidity |-> h, pressure |-> 1013, wind |-> w]) :
        c \in {"London", "Paris"}, t \in {-150, 220, 400}, w \in {30, 200}, h \in {50, 95} }

\* temperatures of 10, 20, 22, 30 and 36 degrees in two cities
StatsReadings ==
    { [temp |-> 100, humidity |-> 40, pressure |-> 1000, wind |-> 10],
      [temp |-> 200, humidity |-> 50, pressure |-> 1010, wind |-> 25],
      [temp |-> 300, humidity |-> 65, pressure |-> 1021, wind |-> 32],
      [temp |-> 220, humidity |-> 55, pressure |-> 1013, wind |-> 32],
      [temp |-> 360, humidity |-> 95, pressure |-> 990, wind |-> 155] }
StatsEntries ==
    { weather_entry("London", r) : r \in StatsReadings }
    \cup { weather_entry("Paris", r) : r \in { x \in StatsReadings : x.temp >= 300 } }

\* two alerting entries and a quiet one
LongEntries ==
    { weather_entry("London", [temp |-> 400, humidity |-> 50, pressure |-> 1013, wind |-> 200]),
      weather_entry("Paris", [temp |-> 220, humidity |-> 50, pressure |-> 1013, wind |-> 30]),
      weather_entry("Tokyo", [temp |-> 220, humidity |-> 95, pressure |-> 1013, wind |-> 30]) }

ViewLogs ==
    AllLogs(AlertEntries, AlertLogLen)
    \cup AllLogs(StatsEntries, StatsLogLen)
    \cup AllLogs(LongEntries, LongLogLen)

\* a session that has fetched the entries of one of ViewLogs and refreshed
ViewInit ==
    /\ weather_logs \in ViewLogs
    /\ api_key = "KEY"
    /\ auto_logging = FALSE
    /\ city_input = "London"
    /\ requests = << >>
    /\ results = << >>
    /\ last = "refresh"
    /\ calls = weather_logs
    /\ origin = [i \in DOMAIN weather_logs |-> "provider"]

ViewNext ==
    \/ RefreshData
    \/ ClearAllLogs

ViewSpec == ViewInit /\ [][ViewNext]_vars

-----------------------------------------------------------------------------
(* Properties *)

IsPrefix(s, t) == Len(s) <= Len(t) /\ SubSeq(t, 1, Len(s)) = s

SomeFailure(res) == \E i \in DOMAIN res : ~res[i].success
SomeSuccess(res) == \E i \in DOMAIN res : res[i].success

\* the data of the results that are successes, in the order of the fetches
DataOfSuccesses(res) ==
    LET ok == SelectSeq(res, LAMBDA r : r.success)
    IN  [i \in DOMAIN ok |-> ok[i].data[1]]

C1_Step ==
    /\ (last' = "get_weather" /\ SomeFailure(results')) => weather_logs' = weather_logs
    /\ (last' = "batch_cities" /\ results' # << >>) =>
          /\ weather_logs' = weather_logs \o DataOfSuccesses(results')
          /\ Len(weather_logs') = Len(weather_logs)
                + Cardinality({ i \in DOMAIN results' : results'[i].success })

C1_Usable ==
    SomeFailure(results) =>
        /\ ENABLED GetWeather
        /\ ENABLED GetForecast
        /\ ENABLED ClearAllLogs
        /\ Len(weather_logs) < MaxLog => (ENABLED DemoWeather /\ ENABLED BatchCities)

\* C1: a fetch that fails appends nothing to weather_logs: Get Weather leaves
\* the log as it was, Batch Cities appends exactly the entries of the cities
\* whose fetch succeeded, in order; and in the state a failure leaves, Get
\* Weather, the forecast, Demo Weather, Batch Cities and Clear All Logs can
\* all still run.
C1_FailedFetchLeavesLog == [][C1_Step]_vars /\ []C1_Usable

\* a batch in which one city failed and a later one succeeded, on a log that
\* already held an entry
C1_Witness ==
    /\ last = "batch_cities"
    /\ Len(results) = BatchLimit
    /\ ~results[1].success
    /\ results[2].success
    /\ ~results[3].success
    /\ Len(weather_logs) = 2
    /\ weather_logs[2].city = "New York"

\* C2: the log is, entry for entry and in order, the sequence of observations
\* handed to add_weather_log since the last clear, and as long as the number
\* of those calls.
C2_LogIsCallSequence ==
    /\ Len(weather_logs) = Len(calls)
    /\ \A i \in DOMAIN calls : weather_logs[i] = calls[i]

\* two handlers have appended, one after the other, four entries that differ
C2_Witness ==
    /\ Len(weather_logs) = 4
    /\ weather_logs[1].status = "demo"
    /\ weather_logs[2].status = "success"
    /\ weather_logs[1] # weather_logs[3]
    /\ weather_logs[3].city = "New York"
    /\ weather_logs = calls

\* the threshold rules an entry matches
MatchedRules(e) ==
    { k \in {"ExtremeHeat", "ExtremeCold", "StrongWind", "HighHumidity"} :
        \/ k = "ExtremeHeat" /\ e.temperature > HeatThreshold
        \/ k = "ExtremeCold" /\ e.temperature < ColdThreshold
        \/ k = "StrongWind" /\ e.wind_speed > WindThreshold
        \/ k = "HighHumidity" /\ e.humidity > HumidityThreshold }

\* C3: every entry of the log raises one alert per threshold rule it matches:
\* as many alerts as matched rules, of exactly those kinds (so 40 degrees with
\* a wind of 20 m/s raises ExtremeHeat and StrongWind).
C3_OneAlertPerMatchedRule ==
    \A i \in DOMAIN weather_logs :
        LET raised == RowAlerts(weather_logs[i])
        IN  /\ Len(raised) = Cardinality(MatchedRules(weather_logs[i]))
            /\ { raised[k].kind : k \in DOMAIN raised } = MatchedRules(weather_logs[i])

Abs(x) == IF x >= 0 THEN x ELSE -x

\* v is num/den rounded to the nearest integer
IsNearest(v, num, den) == 2 * Abs(v * den - num) <= den

\* the temperatures of city c, in log order
TempsOf(logs, c) ==
    LET rows == SelectSeq(logs, LAMBDA e : e.city = c)
    IN  [i \in DOMAIN rows |-> rows[i].temperature]

\* row is the statistics of city c over logs, in hundredths
StatsRowOk(logs, c, row) ==
    LET rows == SelectSeq(logs, LAMBDA e : e.city = c)
        n == Len(rows)
    IN  /\ IsNearest(row.avg_temp, 10 * SumOf(rows, "temperature"), n)
        /\ IsNearest(row.avg_humidity, 100 * SumOf(rows, "humidity"), n)
        /\ IsNearest(row.avg_wind, 10 * SumOf(rows, "wind_speed"), n)
        /\ IsNearest(row.avg_pressure, 100 * SumOf(rows, "pressure"), n)
        /\ \A i \in DOMAIN rows : row.min_temp <= 10 * rows[i].temperature
        /\ \E i \in DOMAIN rows : row.min_temp = 10 * rows[i].temperature
        /\ \A i \in DOMAIN rows : row.max_temp >= 10 * rows[i].temperature
        /\ \E i \in DOMAIN rows : row.max_temp = 10 * rows[i].temperature
        /\ n = 1 => (row.min_temp = row.avg_temp /\ row.max_temp = row.avg_temp)
        /\ TempsOf(logs, c) = <<100, 200, 300>> => row.avg_temp = 2000
        /\ TempsOf(logs, c) = <<220>> => row.avg_temp = 2200
        /\ TempsOf(logs, c) = <<360>> => row.avg_temp = 3600

StatsTableOk(logs, cmp) ==
    /\ cmp.state = "table"
    /\ DOMAIN cmp.table = { logs[i].city : i \in DOMAIN logs }
    /\ \A c \in DOMAIN cmp.table : StatsRowOk(logs, c, cmp.table[c])

C5_EmptyLogViews ==
    /\ last = "clear" => weather_logs = << >>
    /\ weather_logs = << >> =>
          LET v == Render(weather_logs, api_key)
          IN  /\ v.quick_stats.state = "hidden"
              /\ v.latest.state = "no_data"
              /\ v.analytics.state = "no_data"
              /\ v.csv.state = "empty_text"
              /\ v.csv.lines = << >>

\* the log has just been cleared, in a session that can fetch
C5_Witness ==
    /\ last = "clear"
    /\ weather_logs = << >>
    /\ api_key = "KEY"
    /\ city_input = "London"
    /\ Render(weather_logs, api_key).latest.state = "no_data"

\* the cities of the entries that match some rule, in log order
AlertingCities(logs) ==
    LET rows == SelectSeq(logs, LAMBDA e : MatchedRules(e) # {})
    IN  [i \in DOMAIN rows |-> rows[i].city]

\* C6: the alerts are generated in insertion order of the entries that raise
\* them, and the alerts shown are the last min(5, n) of the n generated, in
\* that order; with no alert on a non-empty log the "no alerts" state is shown.
C6_LastFiveAlerts ==
    weather_logs # << >> =>
        LET shown == Render(weather_logs, api_key).analytics.alerts
            a == alerts(weather_logs)
            n == Len(a)
        IN  /\ [k \in DOMAIN a |-> a[k].city] = AlertingCities(weather_logs)
            /\ IF n = 0
               THEN shown.state = "no_alerts"
               ELSE /\ shown.state = "alerts"
                    /\ Len(shown.cards) = Min(ShownAlertCount, n)
                    /\ \A k \in DOMAIN shown.cards :
                          shown.cards[k] = a[n - Len(shown.cards) + k]

\* six alerts generated, five shown, the oldest one dropped
C6_Witness ==
    /\ Len(alerts(weather_logs)) = 6
    /\ LET shown == Render(weather_logs, api_key).analytics.alerts
       IN  /\ Len(shown.cards) = 5
           /\ shown.cards[1] # alerts(weather_logs)[1]
           /\ shown.cards[1] = alerts(weather_logs)[2]

\* C7: every call of get_weather_data and get_forecast_data returns a tuple,
\* either (True, data, None) or (False, None, message), whatever the provider
\* does, and sends one request.
C7_TaggedResults ==
    /\ Len(requests) = Len(results)
    /\ \A i \in DOMAIN results :
          LET r == results[i]
          IN  /\ r.unhandled = "none"
              /\ \/ r.success /\ Len(r.data) = 1 /\ r.error = None
                 \/ ~r.success /\ r.data = << >> /\ r.error # None

\* a 200 response without a required field came back as a tagged failure
C7_Witness ==
    /\ last = "get_weather"
    /\ Len(requests) = 1
    /\ Len(results) = 1
    /\ ~results[1].success
    /\ results[1].error = "Error"

C8_Requests ==
    \A i \in DOMAIN requests : requests[i].appid # "" /\ requests[i].q # ""

C8_Step ==
    (\/ last' \in {"get_weather", "batch_cities", "get_forecast"} /\ api_key = ""
     \/ last' = "get_weather" /\ city_input = "")
    => (requests' = << >> /\ weather_logs' = weather_logs)

\* C8: no request is sent with an empty key or an empty city name, and a run
\* of Get Weather, Batch Cities or the forecast with an empty key, or of Get
\* Weather with an empty city name, sends nothing and leaves the log as it was.
C8_NoRequestWithoutKeyOrCity == []C8_Requests /\ [][C8_Step]_vars

\* Batch Cities pressed with no key, on a log that holds entries
C8_Witness ==
    /\ last = "batch_cities"
    /\ api_key = ""
    /\ requests = << >>
    /\ weather_logs # << >>

C9_Tags ==
    /\ Len(origin) = Len(weather_logs)
    /\ \A i \in DOMAIN weather_logs :
          /\ origin[i] \in {"provider", "local"}
          /\ weather_logs[i].status = "success" <=> origin[i] = "provider"
          /\ weather_logs[i].status = "demo" <=> origin[i] = "local"

C9_Step ==
    \A i \in DOMAIN weather_logs :
        i \in DOMAIN weather_logs' => weather_logs'[i].status = weather_logs[i].status

\* C9: every entry of the log is tagged 'success' exactly when a successful
\* provider response built it and 'demo' exactly when it was generated
\* locally; entries come from these two paths only, and no step changes the
\* tag of an entry that stays in the log.
C9_SourceTagPreserved == []C9_Tags /\ [][C9_Step]_vars

\* a provider entry followed by the five entries of Demo Weather
C9_Witness ==
    /\ Len(weather_logs) = 6
    /\ weather_logs[1].status = "success"
    /\ \A i \in 2..6 : weather_logs[i].status = "demo"
    /\ origin[1] = "provider"
    /\ origin[6] = "local"

C10_Step ==
    /\ \/ IsPrefix(weather_logs, weather_logs')
       \/ last' = "clear" /\ weather_logs' = << >>
    /\ last' \in {"set_api_key", "use_demo_mode", "start_auto_logging",
                  "stop_auto_logging", "set_city"}
          => weather_logs' = weather_logs

\* C10: every step either extends the log (the log before is a prefix of the
\* log after) or is Clear All Logs and empties it; a step that changes the API
\* key, the auto-logging flag or the city leaves the log as it was.
C10_AppendOnly == [][C10_Step]_vars

\* auto logging was stopped on a log that two handlers had extended
C10_Witness ==
    /\ last = "stop_auto_logging"
    /\ auto_logging = FALSE
    /\ Len(weather_logs) = 4
    /\ weather_logs[1].status = "demo"
    /\ weather_logs[4].status = "success"

\* the readings Demo Weather can draw: round(uniform(-5, 35), 1),
\* round(uniform(0, 15), 1) and randint(30, 90), one of them anywhere in its
\* range and the other two at the upper end
DemoRangeReadings ==
    { [temp |-> t, humidity |-> 90, pressure |-> 1040, wind |-> 150] : t \in -50..350 }
    \cup { [temp |-> 350, humidity |-> 90, pressure |-> 1040, wind |-> w] : w \in 0..150 }
    \cup { [temp |-> 350, humidity |-> h, pressure |-> 1040, wind |-> 150] : h \in 30..90 }

\* C11: no synthetic record raises an alert: an entry tagged 'demo' adds
\* nothing to the alerts list, a non-empty log of 'demo' entries only shows the
\* "no alerts" state, and after Demo Weather this is so for every reading its
\* random draws can give, the ends 35 degrees, 15 m/s and 90 % included.
C11_SyntheticNeverAlerts ==
    /\ \A i \in DOMAIN weather_logs :
          weather_logs[i].status = "demo" => RowAlerts(weather_logs[i]) = << >>
    /\ (weather_logs # << >> /\ \A i \in DOMAIN weather_logs : weather_logs[i].status = "demo")
          => Render(weather_logs, api_key).analytics.alerts.state = "no_alerts"
    /\ last = "demo_weather" =>
          \A r \in DemoRangeReadings : RowAlerts(demo_data("London", r)) = << >>

\* a demo-mode entry followed by the five of Demo Weather, one of them at 35
\* degrees, 15 m/s and 90 %: no alert is shown
C11_Witness ==
    /\ last = "demo_weather"
    /\ Len(weather_logs) = 6
    /\ \A i \in DOMAIN weather_logs : weather_logs[i].status = "demo"
    /\ weather_logs[1].temperature = 225
    /\ weather_logs[1].wind_speed = 32
    /\ weather_logs[1].humidity = 65
    /\ weather_logs[2].temperature = HeatThreshold
    /\ weather_logs[2].wind_speed = WindThreshold
    /\ weather_logs[2].humidity = HumidityThreshold
    /\ weather_logs[3].temperature = -50
    /\ Render(weather_logs, api_key).analytics.alerts.state = "no_alerts"

=============================================================================
